---- MODULE Spec2Model ----
(***************************************************************************)
(* CTC beam decoding facade of nemo/collections/asr/parts/submodules/      *)
(* ctc_beam_decoding.py: one BeamCTCInfer instance, its constructor, its   *)
(* setters, its forward() call, the temporary directory of a packaged      *)
(* language model and the finalizer of an unreferenced TemporaryDirectory. *)
(*                                                                         *)
(* Python None is the string "None" for string-valued fields, NonePath for *)
(* paths and the empty tuple for every other optional value (Some(x) is    *)
(* <<x>>).  A path is a record [dir, name]: dir = 0 is the ordinary file   *)
(* system, dir = d > 0 is a file inside temporary directory d.  A text is  *)
(* the sequence of its characters.                                         *)
(***************************************************************************)
EXTENDS Integers, Sequences, FiniteSets, TLC

VARIABLES
    constructed,              \* a BeamCTCInfer instance exists (__init__ returned)
    beam_size,                \* self.beam_size
    search_type,              \* self.search_type
    search_algorithm,         \* self.search_algorithm (name of the bound method)
    return_best_hypothesis,   \* self.return_best_hypothesis
    kenlm_type,               \* self.kenlm_type
    kenlm_path,               \* self.kenlm_path
    tmpdir,                   \* self.tmpdir: None or Some(directory id)
    lexicon_path,             \* self.flashlight_cfg.lexicon_path
    vocab,                    \* self.vocab: None or Some(list of tokens)
    vocab_index_map,          \* self.vocab_index_map: None or Some(token -> index)
    index_vocab_map,          \* self.index_vocab_map: None or Some(index -> token)
    decoding_type,            \* self.decoding_type
    tokenizer,                \* self.tokenizer (its class)
    token_offset,             \* self.token_offset
    pyctcdecode_beam_scorer,  \* self.pyctcdecode_beam_scorer: None or Some(scorer)
    flashlight_beam_scorer,   \* self.flashlight_beam_scorer: None or Some(scorer)
    dirs,                     \* file system: state of every temporary directory
    init_called,              \* the constructor call of the instance has been made
    init_args,                \* arguments of the latest __init__ call
    validation,               \* outcome of the latest set_decoding_type call
    last,                     \* the latest call: operation, exception, effects, result
    threads,                  \* concurrent forward calls: the position of each thread
    buckets,                  \* the frame of an estimate_duration_buckets call
    slices                    \* the per-sample matrices two decode calls hand to pyctcdecode

cfgVars == <<beam_size, search_type, search_algorithm, return_best_hypothesis,
             kenlm_type, kenlm_path, tmpdir, lexicon_path>>
vocabVars == <<vocab, vocab_index_map, index_vocab_map>>
scorerVars == <<pyctcdecode_beam_scorer, flashlight_beam_scorer>>
auxVars == <<threads, buckets, slices>>
vars == <<constructed, cfgVars, vocabVars, decoding_type, tokenizer, token_offset,
          scorerVars, dirs, init_called, init_args, validation, last, auxVars>>

----------------------------------------------------------------------------
(* Bounds of the model *)

MaxBatch == 1

----------------------------------------------------------------------------
(* Values *)

DEFAULT_TOKEN_OFFSET == 100

None == <<>>
Some(x) == <<x>>

NonePath == [dir |-> 0, name |-> "None"]
File(name) == [dir |-> 0, name |-> name]

\* variant of the truth value that takes the empty string for a path
Truthy_of_any_string(path) == path # NonePath

\* bool(kenlm_path): None and the empty string are falsy
Truthy(path) == path # NonePath /\ path.name # ""

\* kenlm_path arguments: no LM, the empty string, an archive with LM binary and
\* lexicon, an archive with the LM binary only, an archive without LM binary,
\* a raw binary LM file, and a path at which no file exists.
KenlmPathInputs ==
    {NonePath, File(""), File("full.nemo"), File("nolex.nemo"), File("nobin.nemo"),
     File("lm.bin"), File("missing.bin")}

LexiconInputs == {NonePath, File("user.lexicon")}
SearchTypeInputs == {"beam", "pyctcdecode", "flashlight", "greedy"}
BeamSizeInputs == {0, 1}

\* identifiers of the temporary directories: the instance's constructor call
\* creates at most one
Dirs == {1}

\* members of the archives of the file system
ArchiveMembers(path) ==
    CASE path = File("full.nemo") -> <<"kenlm_model.bin", "flashlight.lexicon">>
      [] path = File("nolex.nemo") -> <<"kenlm_model.bin">>
      [] path = File("nobin.nemo") -> <<"flashlight.lexicon">>
      [] OTHER -> <<>>

IsArchive(path) == path \in {File("full.nemo"), File("nolex.nemo"), File("nobin.nemo")}

\* os.path.exists: an ordinary file, or a file extracted into a temporary
\* directory that has not been removed
PathExists(path, dirstate) ==
    IF path.dir = 0
    THEN path \in {File("full.nemo"), File("nolex.nemo"), File("nobin.nemo"),
                   File("lm.bin"), File("user.lexicon")}
    ELSE dirstate[path.dir] = "exists"

\* SaveRestoreConnector._filtered_tar_info(path, filter_fn): the members of the
\* archive whose name passes the filter; opening something that is no archive
\* raises.
_filtered_tar_info(tar_path, wanted) ==
    IF ~IsArchive(tar_path)
    THEN [raised |-> TRUE, members |-> <<>>]
    ELSE [raised |-> FALSE,
          members |-> SelectSeq(ArchiveMembers(tar_path), LAMBDA m : m = wanted)]

\* get_nemolm(kenlm_path), d being the TemporaryDirectory it creates first.
\* kenlm_model[0] and lexicon[0] raise IndexError on an empty member list.
get_nemolm(path, d) ==
    LET kenlm_model == _filtered_tar_info(path, "kenlm_model.bin")
        lexicon == _filtered_tar_info(path, "flashlight.lexicon")
    IN  IF \/ kenlm_model.raised
           \/ Len(kenlm_model.members) = 0
           \/ lexicon.raised
           \/ Len(lexicon.members) = 0
        THEN [raised |-> TRUE, tmpdir |-> d, kenlm_type |-> "None",
              kenlm_model_path |-> NonePath, lexicon_path |-> NonePath]
        ELSE [raised |-> FALSE, tmpdir |-> d, kenlm_type |-> "nemolm",
              kenlm_model_path |-> [dir |-> d, name |-> kenlm_model.members[1]],
              lexicon_path |-> [dir |-> d, name |-> lexicon.members[1]]]

\* variant of load_lm without the except clause: the exception of get_nemolm
\* leaves the constructor
load_lm_without_except(path, cfg_lexicon_path, d) ==
    IF Truthy(path)
    THEN LET r == get_nemolm(path, d)
         IN  IF ~r.raised
             THEN [tmpdir |-> Some(r.tmpdir), kenlm_type |-> r.kenlm_type,
                   kenlm_path |-> r.kenlm_model_path, lexicon_path |-> r.lexicon_path,
                   created |-> {d}, error |-> "none"]
             ELSE [tmpdir |-> None, kenlm_type |-> "None",
                   kenlm_path |-> NonePath, lexicon_path |-> cfg_lexicon_path,
                   created |-> {d}, error |-> "Exception: get_nemolm"]
    ELSE [tmpdir |-> None, kenlm_type |-> "zerolm", kenlm_path |-> NonePath,
          lexicon_path |-> cfg_lexicon_path, created |-> {}, error |-> "none"]

\* __init__, lines 242-251: the language model resource of the instance.
\* created is the set of temporary directories the call has created.
load_lm(path, cfg_lexicon_path, d) ==
    IF Truthy(path)
    THEN LET r == get_nemolm(path, d)
         IN  IF ~r.raised
             THEN [tmpdir |-> Some(r.tmpdir), kenlm_type |-> r.kenlm_type,
                   kenlm_path |-> r.kenlm_model_path, lexicon_path |-> r.lexicon_path,
                   created |-> {d}, error |-> "none"]
             ELSE [tmpdir |-> None, kenlm_type |-> "lmplz",
                   kenlm_path |-> path, lexicon_path |-> cfg_lexicon_path,
                   created |-> {d}, error |-> "none"]
    ELSE [tmpdir |-> None, kenlm_type |-> "zerolm", kenlm_path |-> NonePath,
          lexicon_path |-> cfg_lexicon_path, created |-> {}, error |-> "none"]

\* variant of select_search_algorithm that falls back to pyctcdecode
select_search_algorithm_with_default(search_type_arg) ==
    IF search_type_arg = "flashlight" THEN "flashlight_beam_search"
    ELSE "_pyctcdecode_beam_search"

\* __init__, lines 261-270: the constructor argument search_type (not
\* self.search_type, which line 240 rewrote) selects the search method.
select_search_algorithm(search_type_arg) ==
    IF search_type_arg = "pyctcdecode" THEN "_pyctcdecode_beam_search"
    ELSE IF search_type_arg = "flashlight" THEN "flashlight_beam_search"
    ELSE "NotImplementedError"

\* The record of a call: searched = the backend search was invoked, built = a
\* backend scorer was constructed, cleaned = tmpdir.cleanup() was called,
\* beams = the candidate lists the backend returned (None when it returned none).
NoCall == [op |-> "none", error |-> "none", searched |-> FALSE, built |-> FALSE,
           cleaned |-> FALSE, beams |-> None, result |-> <<>>]

Call(op, error) == [NoCall EXCEPT !.op = op, !.error = error]

\* no concurrent call, no estimate_duration_buckets call, no pair of decode calls
NoThreads == <<>>
NoBuckets == [pc |-> "none"]
NoSlices == [pc |-> "none"]

NoArgs == [beam_size |-> 0, search_type |-> "None", compute_timestamps |-> FALSE,
           kenlm_path |-> NonePath, lexicon_path |-> NonePath]

Init ==
    /\ constructed = FALSE
    /\ beam_size = 0
    /\ search_type = "None"
    /\ search_algorithm = "None"
    /\ return_best_hypothesis = TRUE
    /\ kenlm_type = "None"
    /\ kenlm_path = NonePath
    /\ tmpdir = None
    /\ lexicon_path = NonePath
    /\ vocab = None
    /\ vocab_index_map = None
    /\ index_vocab_map = None
    /\ decoding_type = "None"
    /\ tokenizer = "None"
    /\ token_offset = 0
    /\ pyctcdecode_beam_scorer = None
    /\ flashlight_beam_scorer = None
    /\ dirs = [d \in Dirs |-> "absent"]
    /\ init_called = FALSE
    /\ init_args = NoArgs
    /\ validation = "none"
    /\ last = NoCall
    /\ threads = NoThreads
    /\ buckets = NoBuckets
    /\ slices = NoSlices

\* variant of reaches_load_lm that loads the LM before compute_timestamps is tested
reaches_load_lm_before_timestamps(size_arg, timestamps_arg) == ~(size_arg < 1)

\* __init__, lines 217-242: the LM is loaded (line 242) only past the raise of
\* super().__init__ (line 97) and the raise for compute_timestamps (line 225)
reaches_load_lm(size_arg, timestamps_arg) == ~(size_arg < 1) /\ ~timestamps_arg

\* BeamCTCInfer.__init__.  A call that raises leaves no instance behind; the
\* temporary directory it created stays on disk until its finalizer runs.
__init__(size_arg, search_type_arg, best_arg, timestamps_arg, path_arg, lexicon_arg) ==
    LET d == 1
        lm == load_lm(path_arg, lexicon_arg, d)
        algo == select_search_algorithm(search_type_arg)
        error == IF size_arg < 1 THEN "ValueError: beam_size"
                 ELSE IF timestamps_arg THEN "ValueError: compute_timestamps"
                 ELSE IF lm.error # "none" THEN lm.error
                 ELSE IF algo = "NotImplementedError" THEN "NotImplementedError: search_type"
                 ELSE "none"
        loaded == reaches_load_lm(size_arg, timestamps_arg)
    IN  /\ ~constructed
        /\ ~init_called
        /\ init_called' = TRUE
        /\ init_args' = [beam_size |-> size_arg, search_type |-> search_type_arg,
                         compute_timestamps |-> timestamps_arg,
                         kenlm_path |-> path_arg, lexicon_path |-> lexicon_arg]
        /\ dirs' = IF loaded
                   THEN [x \in Dirs |-> IF x \in lm.created THEN "exists" ELSE dirs[x]]
                   ELSE dirs
        /\ last' = Call("__init__", error)
        /\ IF error = "none"
           THEN /\ constructed' = TRUE
                /\ beam_size' = size_arg
                /\ search_type' = IF search_type_arg = "beam" THEN "pyctcdecode"
                                  ELSE search_type_arg
                /\ search_algorithm' = algo
                /\ return_best_hypothesis' = best_arg
                /\ kenlm_type' = lm.kenlm_type
                /\ kenlm_path' = lm.kenlm_path
                /\ tmpdir' = lm.tmpdir
                /\ lexicon_path' = lm.lexicon_path
           ELSE UNCHANGED <<constructed, cfgVars>>
        /\ UNCHANGED auxVars
        /\ UNCHANGED <<vocabVars, decoding_type, tokenizer, token_offset, scorerVars,
                       validation>>

\* The finalizer of a TemporaryDirectory no live object refers to: the garbage
\* collector removes the directory at a time of its own choosing.
finalize(d) ==
    /\ dirs[d] = "exists"
    /\ ~(constructed /\ tmpdir = Some(d))
    /\ dirs' = [dirs EXCEPT ![d] = "deleted"]
    /\ UNCHANGED auxVars
    /\ UNCHANGED <<constructed, cfgVars, vocabVars, decoding_type, tokenizer,
                   token_offset, scorerVars, init_called, init_args, validation, last>>

----------------------------------------------------------------------------
(* Setters *)

VocabInputs == {<<"a">>, <<"a", "b">>}
TokenizerInputs == {"None", "TokenizerSpec", "AggregateTokenizer"}
DecodingTypeInputs == {"char", "subword", "CHAR", "word"}

Tokens(v) == {v[i] : i \in 1..Len(v)}

\* variant of token_to_index that counts the positions from the end
token_to_index_reversed(v) ==
    [t \in Tokens(v) |-> Len(v) - (CHOOSE i \in 1..Len(v) :
                                     /\ v[i] = t
                                     /\ \A j \in 1..Len(v) : v[j] = t => j <= i)]

\* {v: i for i, v in enumerate(vocab)}: a repeated token keeps its last index
token_to_index(v) ==
    [t \in Tokens(v) |-> (CHOOSE i \in 1..Len(v) :
                            /\ v[i] = t
                            /\ \A j \in 1..Len(v) : v[j] = t => j <= i) - 1]

\* {i: v for i, v in enumerate(vocab)}
index_to_token(v) == [i \in 0..(Len(v) - 1) |-> v[i + 1]]

\* AbstractBeamCTCInfer.set_vocabulary
set_vocabulary(vocab_arg) ==
    /\ constructed
    /\ vocab' = Some(vocab_arg)
    /\ vocab_index_map' = Some(token_to_index(vocab_arg))
    /\ index_vocab_map' = Some(index_to_token(vocab_arg))
    /\ last' = Call("set_vocabulary", "none")
    /\ UNCHANGED auxVars
    /\ UNCHANGED <<constructed, cfgVars, decoding_type, tokenizer, token_offset,
                   scorerVars, dirs, init_called, init_args, validation>>

\* AbstractBeamCTCInfer.set_tokenizer
set_tokenizer(tokenizer_arg) ==
    /\ constructed
    /\ tokenizer' = tokenizer_arg
    /\ last' = Call("set_tokenizer", "none")
    /\ UNCHANGED auxVars
    /\ UNCHANGED <<constructed, cfgVars, vocabVars, decoding_type, token_offset,
                   scorerVars, dirs, init_called, init_args, validation>>

\* str.lower()
lower(s) == IF s = "CHAR" THEN "char" ELSE s

\* The compatibility matrix of BeamCTCInfer.set_decoding_type, one operator per
\* (decoding type, search type) block.  "return" is acceptance, anything else
\* the exception raised.  A block that ends without return or raise falls
\* through to the trailing raise of line 593.

\* variant of matrix_subword_flashlight that lets an lmplz model through
matrix_subword_flashlight_lmplz_returns(kpath, ktype) ==
    IF ~Truthy(kpath) THEN "return"
    ELSE IF ktype = "nemolm" \/ ktype = "lmplz" THEN "return"
    ELSE "NotImplementedError: Wrong parameter combination"

\* lines 520-542: subword, flashlight
matrix_subword_flashlight(kpath, ktype) ==
    IF ~Truthy(kpath) THEN "return"
    ELSE IF ktype = "nemolm" THEN "return"
    ELSE IF ktype = "lmplz" THEN "NotImplementedError: works only with lexicon_path"
    ELSE "NotImplementedError: Wrong parameter combination"

\* variant of matrix_subword_pyctcdecode that treats nemolm as the char block does
matrix_subword_pyctcdecode_nemolm_returns(kpath, ktype) ==
    IF ~Truthy(kpath) THEN "NotImplementedError: not implemented without kenlm_path"
    ELSE IF ktype = "nemolm" \/ ktype = "lmplz" THEN "return"
    ELSE "ValueError: Unknown kenlm_type"

\* lines 543-563: subword, pyctcdecode
matrix_subword_pyctcdecode(kpath, ktype) ==
    IF ~Truthy(kpath) THEN "NotImplementedError: not implemented without kenlm_path"
    ELSE IF ktype = "nemolm" THEN "NotImplementedError: not implemented with kenlm_type"
    ELSE IF ktype = "lmplz" THEN "return"
    ELSE "ValueError: Unknown kenlm_type"

\* variant of matrix_char_flashlight that insists on a lexicon for an LM (the
\* check the source carries commented out at lines 524-530)
matrix_char_flashlight_needs_lexicon(kpath, ktype, lexpath) ==
    IF ~Truthy(kpath) THEN "return"
    ELSE IF Truthy(lexpath)
    THEN IF ktype = "nemolm" \/ ktype = "lmplz" THEN "return"
         ELSE "ValueError: Unknown kenlm_type"
    ELSE "NotImplementedError: works only with lexicon_path"

\* lines 566-576: char, flashlight
matrix_char_flashlight(kpath, ktype, lexpath) ==
    IF ~Truthy(kpath) THEN "return"
    ELSE IF Truthy(lexpath)
    THEN IF ktype = "nemolm" \/ ktype = "lmplz" THEN "return"
         ELSE "ValueError: Unknown kenlm_type"
    ELSE "return"

\* variant of matrix_char_pyctcdecode without the kenlm_path check
matrix_char_pyctcdecode_without_lm(kpath, ktype) ==
    IF ~Truthy(kpath) THEN "return"
    ELSE IF ktype = "nemolm" THEN "return"
    ELSE IF ktype = "lmplz" THEN "return"
    ELSE "ValueError: Unknown kenlm_type"

\* lines 577-591: char, pyctcdecode
matrix_char_pyctcdecode(kpath, ktype) ==
    IF ~Truthy(kpath) THEN "NotImplementedError: not implemented without kenlm_path"
    ELSE IF ktype = "nemolm" THEN "return"
    ELSE IF ktype = "lmplz" THEN "return"
    ELSE "ValueError: Unknown kenlm_type"

\* variant of check_matrix whose char block ends without return or raise
check_matrix_without_char_block(dtype, stype, kpath, ktype, lexpath) ==
    IF dtype = "subword"
    THEN IF stype = "flashlight" THEN matrix_subword_flashlight(kpath, ktype)
         ELSE IF stype = "pyctcdecode" THEN matrix_subword_pyctcdecode(kpath, ktype)
         ELSE "NotImplementedError: Wrong parameter combination"
    ELSE "NotImplementedError: Wrong parameter combination"

\* BeamCTCInfer.set_decoding_type, lines 519-593
check_matrix(dtype, stype, kpath, ktype, lexpath) ==
    IF dtype = "subword"
    THEN IF stype = "flashlight" THEN matrix_subword_flashlight(kpath, ktype)
         ELSE IF stype = "pyctcdecode" THEN matrix_subword_pyctcdecode(kpath, ktype)
         ELSE "NotImplementedError: Wrong parameter combination"
    ELSE IF dtype = "char"
    THEN IF stype = "flashlight" THEN matrix_char_flashlight(kpath, ktype, lexpath)
         ELSE IF stype = "pyctcdecode" THEN matrix_char_pyctcdecode(kpath, ktype)
         ELSE "NotImplementedError: Wrong parameter combination"
    ELSE "NotImplementedError: Wrong parameter combination"

\* variant of validate that returns at once when the decoding type is the
\* one the instance already holds
validate_skipping_unchanged(dtype, tok, stype, kpath, ktype, lexpath) ==
    IF dtype = decoding_type THEN "return"
    ELSE IF tok = "AggregateTokenizer" THEN "NotImplementedError: AggregateTokenizer"
    ELSE check_matrix(dtype, stype, kpath, ktype, lexpath)

\* BeamCTCInfer.set_decoding_type, lines 508-517: what the call raises once the
\* base class has stored the decoding type
validate(dtype, tok, stype, kpath, ktype, lexpath) ==
    IF tok = "AggregateTokenizer" THEN "NotImplementedError: AggregateTokenizer"
    ELSE check_matrix(dtype, stype, kpath, ktype, lexpath)

\* BeamCTCInfer.set_decoding_type: the base class stores the decoding type
\* before the tokenizer and the matrix are checked.
set_decoding_type(decoding_type_arg) ==
    LET dtype == lower(decoding_type_arg)
    IN  /\ constructed
        /\ IF dtype \notin {"char", "subword"}
           THEN /\ last' = Call("set_decoding_type",
                                "ValueError: Unsupported decoding type")
                /\ UNCHANGED <<decoding_type, token_offset, validation>>
           ELSE LET verdict == validate(dtype, tokenizer, search_type, kenlm_path,
                                        kenlm_type, lexicon_path)
                IN  /\ decoding_type' = dtype
                    /\ token_offset' = IF dtype = "subword" THEN DEFAULT_TOKEN_OFFSET
                                       ELSE token_offset
                    /\ validation' = IF verdict = "return" THEN "accepted"
                                     ELSE IF verdict = "NotImplementedError: AggregateTokenizer"
                                     THEN "rejected: tokenizer"
                                     ELSE "rejected: matrix"
                    /\ last' = Call("set_decoding_type",
                                    IF verdict = "return" THEN "none" ELSE verdict)
        /\ UNCHANGED auxVars
        /\ UNCHANGED <<constructed, cfgVars, vocabVars, tokenizer, scorerVars, dirs,
                       init_called, init_args>>

----------------------------------------------------------------------------
(* forward *)

\* What a search backend hands back for one sample: a list of candidates.
\* pyctcdecode candidates carry a text and a score, flashlight candidates token
\* ids and a score.  " " is the word separator pyctcdecode puts into a text.
PyCand(text, lm_score) == [text |-> text, lm_score |-> lm_score]
FlCand(tokens, score) == [tokens |-> tokens, score |-> score]

PyBeams == {<<>>, <<PyCand(<<"b">>, 0), PyCand(<<"a">>, 1)>>}

FlBeams == {<<>>, <<FlCand(<<1>>, 0), FlCand(<<0>>, 1)>>}

\* decoder_lengths of a batch of B samples
LengthInputs == {[i \in 1..B |-> i] : B \in 0..MaxBatch}

BeamsInputs(algorithm, B) ==
    IF algorithm = "_pyctcdecode_beam_search" THEN [1..B -> PyBeams] ELSE [1..B -> FlBeams]

\* tokenizer.text_to_ids of an ordinary tokenizer
CharId(c) == CASE c = "a" -> 0 [] c = "b" -> 1 [] OTHER -> 2
text_to_ids(text) == [k \in 1..Len(text) |-> CharId(text[k])]

\* chr(n) for the code points the model meets
chr(n) ==
    CASE n = 0 -> "\\x00" [] n = 1 -> "\\x01" [] n = 2 -> "\\x02"
      [] n = 100 -> "d" [] n = 101 -> "e" [] n = 102 -> "f"
      [] OTHER -> "?"

Hypothesis(score, y_sequence, text) ==
    [score |-> score, y_sequence |-> y_sequence, text |-> text, length |-> None]

SearchResult(error, scorer, built, searched, hypotheses) ==
    [error |-> error, scorer |-> scorer, built |-> built, searched |-> searched,
     hypotheses |-> hypotheses]

\* variant of needs_scorer that constructs the scorer on every call
needs_scorer_on_every_call(scorer) == TRUE

\* variant of lm_file_missing that never looks at the file system
lm_file_never_missing(path, dirstate) == FALSE

\* self.pyctcdecode_beam_scorer is None (line 357), self.flashlight_beam_scorer
\* is None (line 437): the scorer is constructed only while it is absent
needs_scorer(scorer) == scorer = None

\* not os.path.exists(self.kenlm_path), line 441, and the file kenlm opens
lm_file_missing(path, dirstate) == path # NonePath /\ ~PathExists(path, dirstate)

\* The errors a search raises before the backend has returned its candidates
BeforeBeams == {"ImportError", "OSError: kenlm model", "FileNotFoundError",
                "ModuleNotFoundError"}

HasCandidate(beams_batch) ==
    \E i \in 1..Len(beams_batch) : Len(beams_batch[i]) > 0

\* _pyctcdecode_beam_search, lines 380-417: the exception of the conversion loop
pyctcdecode_convert_error(beams_batch) ==
    IF decoding_type = "subword"
    THEN IF ~HasCandidate(beams_batch) THEN "none"
         ELSE IF tokenizer = "None" THEN "ValueError: Tokenizer must be provided"
         ELSE IF tokenizer = "AggregateTokenizer" THEN "TypeError: text_to_ids"
         ELSE "none"
    ELSE IF \E i \in 1..Len(beams_batch) : \E j \in 1..Len(beams_batch[i]) :
               \E k \in 1..Len(beams_batch[i][j].text) :
                   beams_batch[i][j].text[k] \notin DOMAIN vocab_index_map[1]
         THEN "KeyError"
         ELSE "none"

\* _pyctcdecode_beam_search, lines 385-412: one candidate as a Hypothesis
pyctcdecode_hypothesis(candidate) ==
    Hypothesis(candidate.lm_score,
               IF decoding_type = "subword"
               THEN text_to_ids(candidate.text)
               ELSE [k \in 1..Len(candidate.text) |->
                        vocab_index_map[1][candidate.text[k]]],
               Some(candidate.text))

\* BeamCTCInfer._pyctcdecode_beam_search
_pyctcdecode_beam_search(out_len, beams_batch, importable) ==
    LET build == needs_scorer(pyctcdecode_beam_scorer)
        scorer == IF build
                  THEN Some([vocabulary |-> vocab[1], lm_path |-> kenlm_path])
                  ELSE pyctcdecode_beam_scorer
        searched == Len(out_len) > 0
    IN  IF ~importable
        THEN SearchResult("ImportError", pyctcdecode_beam_scorer, FALSE, FALSE, <<>>)
        ELSE IF build /\ lm_file_missing(kenlm_path, dirs)
        THEN SearchResult("OSError: kenlm model", pyctcdecode_beam_scorer, FALSE, FALSE,
                          <<>>)
        ELSE IF pyctcdecode_convert_error(beams_batch) # "none"
        THEN SearchResult(pyctcdecode_convert_error(beams_batch), scorer, build,
                          searched, <<>>)
        ELSE SearchResult("none", scorer, build, searched,
                 [i \in 1..Len(beams_batch) |->
                    [j \in 1..Len(beams_batch[i]) |->
                        pyctcdecode_hypothesis(beams_batch[i][j])]])

\* variant of flashlight_vocabulary that remaps without the token offset
flashlight_vocabulary_without_offset ==
    IF decoding_type = "subword" /\ kenlm_type = "lmplz" THEN vocab[1]
    ELSE IF decoding_type = "subword" /\ kenlm_type = "nemolm"
    THEN [i \in 1..Len(vocab[1]) |-> chr(i - 1)]
    ELSE vocab[1]

\* flashlight_beam_search, lines 447-454: the vocabulary handed to the scorer
flashlight_vocabulary ==
    IF decoding_type = "subword" /\ kenlm_type = "lmplz" THEN vocab[1]
    ELSE IF decoding_type = "subword" /\ kenlm_type = "nemolm"
    THEN [i \in 1..Len(vocab[1]) |-> chr((i - 1) + token_offset)]
    ELSE vocab[1]

\* FlashLightKenLMBeamSearchDecoder(...): needs the flashlight library
FlashLightKenLMBeamSearchDecoder(lm_path, vocabulary, importable) ==
    IF importable
    THEN [raised |-> FALSE, scorer |-> Some([vocabulary |-> vocabulary, lm_path |-> lm_path])]
    ELSE [raised |-> TRUE, scorer |-> None]

\* BeamCTCInfer.flashlight_beam_search
flashlight_beam_search(out_len, beams_batch, importable) ==
    LET build == needs_scorer(flashlight_beam_scorer)
        made == FlashLightKenLMBeamSearchDecoder(kenlm_path, flashlight_vocabulary,
                                                 importable)
        scorer == IF build THEN made.scorer ELSE flashlight_beam_scorer
    IN  IF build /\ lm_file_missing(kenlm_path, dirs)
        THEN SearchResult("FileNotFoundError", flashlight_beam_scorer, FALSE, FALSE, <<>>)
        ELSE IF build /\ made.raised
        THEN SearchResult("ModuleNotFoundError", flashlight_beam_scorer, FALSE, FALSE,
                          <<>>)
        ELSE SearchResult("none", scorer, build, TRUE,
                 [i \in 1..Len(beams_batch) |->
                    [j \in 1..Len(beams_batch[i]) |->
                        Hypothesis(beams_batch[i][j].score, beams_batch[i][j].tokens,
                                   None)]])

\* variant of pack_hypotheses that returns each list in reverse order
pack_hypotheses_reversed(hypotheses, logitlen) ==
    [idx \in 1..Len(hypotheses) |->
        [c \in 1..Len(hypotheses[idx]) |->
            [hypotheses[idx][Len(hypotheses[idx]) + 1 - c]
                EXCEPT !.length = Some(logitlen[idx])]]]

\* pack_hypotheses: every candidate of sample idx gets length logitlen[idx]
pack_hypotheses(hypotheses, logitlen) ==
    [idx \in 1..Len(hypotheses) |->
        [c \in 1..Len(hypotheses[idx]) |->
            [hypotheses[idx][c] EXCEPT !.length = Some(logitlen[idx])]]]

\* variant of forward_precheck without the decoding type check
forward_precheck_without_decoding_type(ndim) ==
    IF vocab = None THEN "RuntimeError: set_vocabulary"
    ELSE IF ndim # 3 THEN "ValueError: decoder_output shape"
    ELSE "none"

\* forward, lines 301-315: the checks made before the search
forward_precheck(ndim) ==
    IF vocab = None THEN "RuntimeError: set_vocabulary"
    ELSE IF decoding_type = "None" THEN "ValueError: set_decoding_type"
    ELSE IF ndim # 3 THEN "ValueError: decoder_output shape"
    ELSE "none"

\* forward, lines 324-326: the value returned, or the IndexError of [0]
select_result(packed_result) ==
    IF return_best_hypothesis
    THEN IF Len(packed_result) = 0
            \/ \E i \in 1..Len(packed_result) : Len(packed_result[i]) = 0
         THEN [error |-> "IndexError", value |-> <<>>]
         ELSE [error |-> "none",
               value |-> [i \in 1..Len(packed_result) |-> packed_result[i][1]]]
    ELSE [error |-> "none", value |-> packed_result]

\* variant of cleanup_reached that releases the directory on every exit
cleanup_reached_on_every_exit(error) == TRUE

\* forward, lines 327-328: tmpdir.cleanup() is reached on normal completion only
cleanup_reached(error) == error = "none"

\* BeamCTCInfer.forward
forward(ndim, decoder_lengths, beams_batch, importable) ==
    LET pre == forward_precheck(ndim)
        r == IF search_algorithm = "_pyctcdecode_beam_search"
             THEN _pyctcdecode_beam_search(decoder_lengths, beams_batch, importable)
             ELSE flashlight_beam_search(decoder_lengths, beams_batch, importable)
        sel == select_result(pack_hypotheses(r.hypotheses, decoder_lengths))
        error == IF r.error # "none" THEN r.error ELSE sel.error
        cleaned == cleanup_reached(error) /\ tmpdir # None
    IN  /\ constructed
        /\ IF pre # "none"
           THEN /\ last' = Call("forward", pre)
                /\ UNCHANGED <<scorerVars, dirs>>
           ELSE /\ pyctcdecode_beam_scorer' =
                      IF search_algorithm = "_pyctcdecode_beam_search"
                      THEN r.scorer ELSE pyctcdecode_beam_scorer
                /\ flashlight_beam_scorer' =
                      IF search_algorithm = "flashlight_beam_search"
                      THEN r.scorer ELSE flashlight_beam_scorer
                /\ dirs' = IF cleaned THEN [dirs EXCEPT ![tmpdir[1]] = "deleted"]
                           ELSE dirs
                /\ last' = [op |-> "forward", error |-> error,
                            searched |-> r.searched, built |-> r.built,
                            cleaned |-> cleaned,
                            beams |-> IF r.error \in BeforeBeams THEN None
                                      ELSE Some(beams_batch),
                            result |-> IF error = "none" THEN sel.value ELSE <<>>]
        /\ UNCHANGED auxVars
        /\ UNCHANGED <<constructed, cfgVars, vocabVars, decoding_type, tokenizer,
                       token_offset, init_called, init_args, validation>>

Next ==
    \/ \E b \in BeamSizeInputs, st \in SearchTypeInputs, rb \in BOOLEAN,
          ct \in BOOLEAN, kp \in KenlmPathInputs, lx \in LexiconInputs :
            __init__(b, st, rb, ct, kp, lx)
    \/ \E d \in Dirs : finalize(d)
    \/ \E v \in VocabInputs : set_vocabulary(v)
    \/ \E t \in TokenizerInputs : set_tokenizer(t)
    \/ \E dt \in DecodingTypeInputs : set_decoding_type(dt)
    \/ \E lens \in LengthInputs, importable \in BOOLEAN :
          \E beams \in BeamsInputs(search_algorithm, Len(lens)) :
              forward(3, lens, beams, importable)
    \/ forward(2, <<>>, <<>>, TRUE)

Spec == Init /\ [][Next]_vars

----------------------------------------------------------------------------
(* Decoding over richer vocabularies and candidate lists: one instance with a
   binary LM file, vocabularies with a repeated token, a multi-character token
   and the blank token, candidate lists in either order. *)

\* set_vocabulary docstring, line 119: the "BLANK" token
BLANK == "BLANK"

DecodeSearchTypeInputs == {"pyctcdecode", "flashlight"}
DecodeVocabInputs == {<<"a", "b">>, <<"a", "a">>, <<"ab">>, <<"a", BLANK>>}
DecodeTokenizerInputs == {"None", "TokenizerSpec"}
DecodeDecodingTypeInputs == {"char", "subword"}

\* list(token): the characters of a token
Chars(token) ==
    CASE token = "ab" -> <<"a", "b">>
      [] token = BLANK -> <<"B", "L", "A", "N", "K">>
      [] OTHER -> <<token>>

\* the texts pyctcdecode can put together from one or two labels of v
TextsOver(v) ==
    {Chars(t) : t \in Tokens(v)} \cup {Chars(t) \o Chars(u) : t, u \in Tokens(v)}

DecodePyBeams ==
    {<<>>,
     <<PyCand(<<"a">>, 1)>>,
     <<PyCand(<<"a", "b">>, 1)>>,
     <<PyCand(<<"a">>, 1), PyCand(<<"b">>, 0)>>,
     <<PyCand(<<"b">>, 0), PyCand(<<"a">>, 1)>>}

DecodeFlBeams ==
    {<<>>,
     <<FlCand(<<0>>, 1)>>,
     <<FlCand(<<0>>, 1), FlCand(<<1>>, 0)>>,
     <<FlCand(<<1>>, 0), FlCand(<<0>>, 1)>>}

DecodeBeamsInputs(algorithm, B) ==
    IF algorithm = "_pyctcdecode_beam_search"
    THEN [1..B -> DecodePyBeams] ELSE [1..B -> DecodeFlBeams]

\* A backend returns texts made of the labels, or indices of the vocabulary,
\* it was constructed with (lines 358 and 447-472)
BackendCanReturn(algorithm, beams_batch) ==
    IF vocab = None THEN TRUE
    ELSE \A i \in 1..Len(beams_batch) : \A j \in 1..Len(beams_batch[i]) :
            IF algorithm = "_pyctcdecode_beam_search"
            THEN beams_batch[i][j].text \in TextsOver(vocab[1])
            ELSE \A k \in 1..Len(beams_batch[i][j].tokens) :
                    beams_batch[i][j].tokens[k] < Len(vocab[1])

NextDecode ==
    \/ \E st \in DecodeSearchTypeInputs, rb \in BOOLEAN :
            __init__(1, st, rb, FALSE, File("lm.bin"), NonePath)
    \/ \E d \in Dirs : finalize(d)
    \/ \E v \in DecodeVocabInputs : set_vocabulary(v)
    \/ \E t \in DecodeTokenizerInputs : set_tokenizer(t)
    \/ \E dt \in DecodeDecodingTypeInputs : set_decoding_type(dt)
    \/ \E lens \in LengthInputs, importable \in BOOLEAN :
          \E beams \in DecodeBeamsInputs(search_algorithm, Len(lens)) :
              /\ BackendCanReturn(search_algorithm, beams)
              /\ forward(3, lens, beams, importable)
    \/ forward(2, <<>>, <<>>, TRUE)

SpecDecode == Init /\ [][NextDecode]_vars

----------------------------------------------------------------------------
(* Concurrent forward calls on one instance with a packaged LM.  The calls
   share the instance: each reads the scorer attribute, constructs and
   assigns the scorer when it read None, searches, and releases tmpdir.  A
   step is one access to the shared state; the steps of different threads
   interleave in every order. *)

MaxThreads == 2
Threads == 1..MaxThreads

ConcurrentSearchTypeInputs == {"pyctcdecode", "flashlight"}

\* the frame of one forward call of a thread
ThreadCall(pc, error, built) == [pc |-> pc, error |-> error, built |-> built]

\* the scorer attribute of the backend the instance searches with
active_scorer ==
    IF search_algorithm = "_pyctcdecode_beam_search"
    THEN pyctcdecode_beam_scorer ELSE flashlight_beam_scorer

\* Concurrent use begins: every thread enters forward.  warm = the scorer had
\* been constructed by then.
begin_concurrency ==
    /\ constructed
    /\ threads = NoThreads
    /\ threads' = [warm |-> active_scorer # None,
                   calls |-> [t \in Threads |-> ThreadCall("start", "none", FALSE)]]
    /\ UNCHANGED <<constructed, cfgVars, vocabVars, decoding_type, tokenizer,
                   token_offset, scorerVars, dirs, init_called, init_args,
                   validation, last, buckets, slices>>

\* forward, lines 301-315, and the test of the scorer attribute (lines 357, 437)
thread_check(t) ==
    LET pre == forward_precheck(3)
    IN  /\ threads # NoThreads
        /\ threads.calls[t].pc = "start"
        /\ threads' =
              [threads EXCEPT !.calls[t] =
                  IF pre # "none" THEN ThreadCall("done", pre, FALSE)
                  ELSE IF needs_scorer(active_scorer)
                  THEN ThreadCall("construct", "none", FALSE)
                  ELSE ThreadCall("search", "none", FALSE)]
        /\ UNCHANGED <<constructed, cfgVars, vocabVars, decoding_type, tokenizer,
                       token_offset, scorerVars, dirs, init_called, init_args,
                       validation, last, buckets, slices>>

\* lines 358-360 and 439-472: the scorer is constructed from the LM file and
\* assigned, or the missing file ends the call
thread_construct(t) ==
    LET missing == lm_file_missing(kenlm_path, dirs)
        pyscorer == Some([vocabulary |-> vocab[1], lm_path |-> kenlm_path])
        flscorer == FlashLightKenLMBeamSearchDecoder(kenlm_path, flashlight_vocabulary,
                                                     TRUE).scorer
    IN  /\ threads # NoThreads
        /\ threads.calls[t].pc = "construct"
        /\ threads' =
              [threads EXCEPT !.calls[t] =
                  IF ~missing THEN ThreadCall("search", "none", TRUE)
                  ELSE IF search_algorithm = "_pyctcdecode_beam_search"
                  THEN ThreadCall("done", "OSError: kenlm model", FALSE)
                  ELSE ThreadCall("done", "FileNotFoundError", FALSE)]
        /\ pyctcdecode_beam_scorer' =
              IF ~missing /\ search_algorithm = "_pyctcdecode_beam_search"
              THEN pyscorer ELSE pyctcdecode_beam_scorer
        /\ flashlight_beam_scorer' =
              IF ~missing /\ search_algorithm = "flashlight_beam_search"
              THEN flscorer ELSE flashlight_beam_scorer
        /\ UNCHANGED <<constructed, cfgVars, vocabVars, decoding_type, tokenizer,
                       token_offset, dirs, init_called, init_args, validation, last,
                       buckets, slices>>

\* the search with the scorer, the packing, and lines 327-328: tmpdir.cleanup()
thread_finish(t) ==
    /\ threads # NoThreads
    /\ threads.calls[t].pc = "search"
    /\ threads' = [threads EXCEPT !.calls[t].pc = "done"]
    /\ dirs' = IF tmpdir # None THEN [dirs EXCEPT ![tmpdir[1]] = "deleted"] ELSE dirs
    /\ UNCHANGED <<constructed, cfgVars, vocabVars, decoding_type, tokenizer,
                   token_offset, scorerVars, init_called, init_args, validation, last,
                   buckets, slices>>

NextConcurrent ==
    \/ \E st \in ConcurrentSearchTypeInputs, rb \in BOOLEAN :
            __init__(1, st, rb, FALSE, File("full.nemo"), NonePath)
    \/ \E v \in VocabInputs : threads = NoThreads /\ set_vocabulary(v)
    \/ \E dt \in DecodeDecodingTypeInputs : threads = NoThreads /\ set_decoding_type(dt)
    \/ \E lens \in LengthInputs, importable \in BOOLEAN :
          \E beams \in BeamsInputs(search_algorithm, Len(lens)) :
              threads = NoThreads /\ forward(3, lens, beams, importable)
    \/ begin_concurrency
    \/ \E t \in Threads : thread_check(t)
    \/ \E t \in Threads : thread_construct(t)
    \/ \E t \in Threads : thread_finish(t)

SpecConcurrent == Init /\ [][NextConcurrent]_vars

----------------------------------------------------------------------------
(* estimate_duration_buckets of scripts/speech_recognition/
   estimate_duration_bins_2d.py.  A cut is the pair <<duration, tokens>> that
   constraint.measure_length gives for it.  Durations are whole numbers, so
   tot > sizes.sum() / num_buckets is compared as tot * num_buckets > sum. *)

MaxCuts == 3

DurationInputs == {1, 2, 3}
TokenInputs == {1, 2}
CutInputs == UNION {[1..n -> DurationInputs \X TokenInputs] : n \in 1..MaxCuts}
NumBucketsInputs == {2, 3}
NumSubbucketsInputs == {1, 2}
MaxTpsInputs == {2}
MaxDurationInputs == {4}

RECURSIVE SumSeq(_)
\* ndarray.sum()
SumSeq(q) == IF q = <<>> THEN 0 ELSE Head(q) + SumSeq(Tail(q))

\* the order of np.rec.fromarrays([sizes, num_tokens]).sort(): by f0, then f1
RecLeq(a, b) == a[1] < b[1] \/ (a[1] = b[1] /\ a[2] <= b[2])

\* joint.sort()
sort_joint(q) ==
    LET p == CHOOSE p \in [1..Len(q) -> 1..Len(q)] :
                /\ \A i, j \in 1..Len(q) : p[i] = p[j] => i = j
                /\ \A i, j \in 1..Len(q) : i < j => RecLeq(q[p[i]], q[p[j]])
    IN  [i \in 1..Len(q) |-> q[p[i]]]

\* ndarray.sort() of a one-dimensional array of integers
sort_ints(q) ==
    LET p == CHOOSE p \in [1..Len(q) -> 1..Len(q)] :
                /\ \A i, j \in 1..Len(q) : p[i] = p[j] => i = j
                /\ \A i, j \in 1..Len(q) : i < j => q[p[i]] <= q[p[j]]
    IN  [i \in 1..Len(q) |-> q[p[i]]]

\* a[lo:hi] of Python (0-based, hi excluded)
slice(a, lo, hi) == SubSeq(a, lo + 1, hi)

\* a[lo:hi].sort(): the slice is a view, the array is sorted in place there
sort_in_place(a, lo, hi) ==
    [i \in 1..Len(a) |->
        IF lo < i /\ i <= hi THEN sort_ints(slice(a, lo, hi))[i - lo] ELSE a[i]]

RECURSIVE subbucket_bins(_, _, _, _, _)
\* lines 147-151 and 163-167: the bins appended inside one bucket, total being
\* num_tokens_bucket.sum()
subbucket_bins(toks, tot_toks, total, num_subbuckets, size) ==
    IF toks = <<>> THEN <<>>
    ELSE IF tot_toks * num_subbuckets > total
    THEN <<<<size, Head(toks)>>>>
            \o subbucket_bins(Tail(toks), Head(toks), total, num_subbuckets, size)
    ELSE subbucket_bins(Tail(toks), tot_toks + Head(toks), total, num_subbuckets, size)

\* the frame of a call that has just been entered
BucketsCall(cuts, num_buckets, num_subbuckets, max_tps, max_duration) ==
    [pc |-> "start", cuts |-> cuts, num_buckets |-> num_buckets,
     num_subbuckets |-> num_subbuckets, max_tps |-> max_tps,
     max_duration |-> max_duration, sizes |-> <<>>, num_tokens |-> <<>>,
     bins |-> <<>>, bin_indexes |-> <<0>>, tot |-> 0, binidx |-> 0]

InitBuckets ==
    /\ constructed = FALSE
    /\ beam_size = 0
    /\ search_type = "None"
    /\ search_algorithm = "None"
    /\ return_best_hypothesis = TRUE
    /\ kenlm_type = "None"
    /\ kenlm_path = NonePath
    /\ tmpdir = None
    /\ lexicon_path = NonePath
    /\ vocab = None
    /\ vocab_index_map = None
    /\ index_vocab_map = None
    /\ decoding_type = "None"
    /\ tokenizer = "None"
    /\ token_offset = 0
    /\ pyctcdecode_beam_scorer = None
    /\ flashlight_beam_scorer = None
    /\ dirs = [d \in Dirs |-> "absent"]
    /\ init_called = FALSE
    /\ init_args = NoArgs
    /\ validation = "none"
    /\ last = NoCall
    /\ threads = NoThreads
    /\ slices = NoSlices
    /\ buckets \in {BucketsCall(c, nb, ns, tps, md) :
                      c \in CutInputs, nb \in NumBucketsInputs,
                      ns \in NumSubbucketsInputs, tps \in MaxTpsInputs,
                      md \in MaxDurationInputs}

\* lines 133-147: measure the cuts and sort them by duration, then tokens
measure_and_sort ==
    LET joint == sort_joint(buckets.cuts)
    IN  /\ buckets.pc = "start"
        /\ buckets' = [buckets EXCEPT
                          !.pc = "loop",
                          !.sizes = [i \in 1..Len(joint) |-> joint[i][1]],
                          !.num_tokens = [i \in 1..Len(joint) |-> joint[i][2]]]
        /\ UNCHANGED <<constructed, cfgVars, vocabVars, decoding_type, tokenizer,
                       token_offset, scorerVars, dirs, init_called, init_args,
                       validation, last, threads, slices>>

\* lines 154-170: one pass of `for binidx, size in enumerate(sizes)`
bucket_loop ==
    LET binidx == buckets.binidx
        size == buckets.sizes[binidx + 1]
        start == buckets.bin_indexes[Len(buckets.bin_indexes)]
        full == buckets.tot * buckets.num_buckets > SumSeq(buckets.sizes)
        sorted == sort_in_place(buckets.num_tokens, start, binidx)
        num_tokens_bucket == slice(sorted, start, binidx)
        inner == subbucket_bins(num_tokens_bucket, 0, SumSeq(num_tokens_bucket),
                                buckets.num_subbuckets, size)
    IN  /\ buckets.pc = "loop"
        /\ binidx < Len(buckets.sizes)
        /\ buckets' = [buckets EXCEPT
              !.num_tokens = IF full THEN sorted ELSE @,
              !.bins = IF full
                       THEN @ \o inner \o <<<<size, size * buckets.max_tps>>>>
                       ELSE @,
              !.bin_indexes = IF full THEN Append(@, binidx) ELSE @,
              !.tot = IF full THEN size ELSE @ + size,
              !.binidx = @ + 1]
        /\ UNCHANGED <<constructed, cfgVars, vocabVars, decoding_type, tokenizer,
                       token_offset, scorerVars, dirs, init_called, init_args,
                       validation, last, threads, slices>>

\* lines 160-170: the last bucket.  binidx is what the loop left in it, the
\* index of the last cut.
bucket_tail ==
    LET binidx == Len(buckets.sizes) - 1
        start == buckets.bin_indexes[Len(buckets.bin_indexes)]
        sorted == sort_in_place(buckets.num_tokens, start, binidx)
        num_tokens_bucket == slice(sorted, start, binidx)
        inner == subbucket_bins(num_tokens_bucket, 0, SumSeq(num_tokens_bucket),
                                buckets.num_subbuckets, buckets.max_duration)
    IN  /\ buckets.pc = "loop"
        /\ buckets.binidx = Len(buckets.sizes)
        /\ buckets' = [buckets EXCEPT
              !.pc = "done",
              !.num_tokens = sorted,
              !.bins = @ \o inner
                         \o <<<<buckets.max_duration,
                                buckets.max_duration * buckets.max_tps>>>>]
        /\ UNCHANGED <<constructed, cfgVars, vocabVars, decoding_type, tokenizer,
                       token_offset, scorerVars, dirs, init_called, init_args,
                       validation, last, threads, slices>>

NextBuckets == measure_and_sort \/ bucket_loop \/ bucket_tail

SpecBuckets == InitBuckets /\ [][NextBuckets]_vars

----------------------------------------------------------------------------
(* The per-sample matrices of _pyctcdecode_beam_search (lines 362-378): two
   decode calls of one instance with the same decoder_lengths and the tensors
   x and y.  A tensor is a function sample -> time step -> row of
   log-probabilities, samples and time steps counted from 1. *)

MaxTime == 2

SliceSamples == {1, 2}
RowInputs == {<<0, 1>>, <<1, 0>>}
TensorInputs == [SliceSamples -> [1..MaxTime -> RowInputs]]
SliceLengthInputs == [SliceSamples -> 0..MaxTime]

logprobs_ignoring_out_len(x, out_len, sample_id) ==
    [t \in 1..MaxTime |-> x[sample_id][t]]

\* line 367: x[sample_id, : out_len[sample_id], :]
logprobs(x, out_len, sample_id) ==
    [t \in 1..out_len[sample_id] |-> x[sample_id][t]]

\* lines 368-377: decode_beams is a library call; its other arguments are the
\* instance's configuration, the same in both calls.  It stands here as one
\* function of the matrix: the best class of every time step, scored by the
\* sum of the row maxima.
decode_beams(matrix) ==
    LET best(row) == CHOOSE c \in 1..Len(row) : \A d \in 1..Len(row) : row[d] <= row[c]
    IN  <<[text |-> [t \in 1..Len(matrix) |-> best(matrix[t])],
          score |-> SumSeq([t \in 1..Len(matrix) |-> matrix[t][best(matrix[t])]])]>>

\* lines 365-378: the loop over the samples of one call
SliceSearch(x, out_len) ==
    [handed |-> [i \in SliceSamples |-> logprobs(x, out_len, i)],
     beams_batch |-> [i \in SliceSamples |-> decode_beams(logprobs(x, out_len, i))]]

InitSlice ==
    /\ constructed = FALSE
    /\ beam_size = 0
    /\ search_type = "None"
    /\ search_algorithm = "None"
    /\ return_best_hypothesis = TRUE
    /\ kenlm_type = "None"
    /\ kenlm_path = NonePath
    /\ tmpdir = None
    /\ lexicon_path = NonePath
    /\ vocab = None
    /\ vocab_index_map = None
    /\ index_vocab_map = None
    /\ decoding_type = "None"
    /\ tokenizer = "None"
    /\ token_offset = 0
    /\ pyctcdecode_beam_scorer = None
    /\ flashlight_beam_scorer = None
    /\ dirs = [d \in Dirs |-> "absent"]
    /\ init_called = FALSE
    /\ init_args = NoArgs
    /\ validation = "none"
    /\ last = NoCall
    /\ threads = NoThreads
    /\ buckets = NoBuckets
    /\ slices \in {[pc |-> "start", out_len |-> l, x |-> x, y |-> x,
                     first |-> SliceSearch(x, [i \in SliceSamples |-> 0]),
                     second |-> SliceSearch(x, [i \in SliceSamples |-> 0])] :
                    x \in TensorInputs, l \in SliceLengthInputs}

\* the first call: _pyctcdecode_beam_search(x, out_len)
search_first ==
    /\ slices.pc = "start"
    /\ slices' = [slices EXCEPT !.pc = "first",
                                 !.first = SliceSearch(slices.x, slices.out_len)]
    /\ UNCHANGED <<constructed, cfgVars, vocabVars, decoding_type, tokenizer,
                   token_offset, scorerVars, dirs, init_called, init_args,
                   validation, last, threads, buckets>>

\* the second call: _pyctcdecode_beam_search(y, out_len)
search_second(y) ==
    /\ slices.pc = "first"
    /\ slices' = [slices EXCEPT !.pc = "done", !.y = y,
                                 !.second = SliceSearch(y, slices.out_len)]
    /\ UNCHANGED <<constructed, cfgVars, vocabVars, decoding_type, tokenizer,
                   token_offset, scorerVars, dirs, init_called, init_args,
                   validation, last, threads, buckets>>

NextSlice ==
    \/ search_first
    \/ \E y \in TensorInputs : search_second(y)

SpecSlice == InitSlice /\ [][NextSlice]_vars

----------------------------------------------------------------------------
(* Properties *)

MatrixVerdict == last.op = "set_decoding_type"
                 /\ last.error # "ValueError: Unsupported decoding type"
                 /\ tokenizer # "AggregateTokenizer"
Accepted == last.error = "none" /\ validation = "accepted"
Rejected == last.error # "none" /\ validation = "rejected: matrix"

\* a forward call that got past the vocabulary and decoding type checks
Decoded == last.op = "forward"
           /\ last.error \notin {"RuntimeError: set_vocabulary",
                                 "ValueError: set_decoding_type"}

\* C1: on an instance with a packaged LM (kenlm_type nemolm, tmpdir owned),
\* every decode call leaves the temporary directory released when it ends,
\* whether it returned or raised.
C1_TmpdirReleasedAfterEveryForward ==
    (Decoded /\ kenlm_type = "nemolm") => dirs[tmpdir[1]] = "deleted"

\* C2: once set_decoding_type has rejected the configuration under the
\* compatibility matrix, no decode call runs a backend search until a
\* set_decoding_type call has been accepted.
C2_NoSearchAfterMatrixRejection ==
    (last.op = "forward" /\ last.searched) => validation # "rejected: matrix"

\* C3: subword decoding with pyctcdecode is rejected without an LM, rejected
\* with a packaged (nemolm) LM and accepted with a raw binary (lmplz) LM,
\* whatever the lexicon path.
C3_SubwordPyctcdecode ==
    (MatrixVerdict /\ decoding_type = "subword" /\ search_type = "pyctcdecode") =>
        /\ kenlm_type \in {"zerolm", "nemolm"} => Rejected
        /\ kenlm_type = "lmplz" => Accepted

C3_Witness ==
    /\ MatrixVerdict /\ decoding_type = "subword" /\ search_type = "pyctcdecode"
    /\ kenlm_type = "lmplz" /\ Truthy(lexicon_path) /\ Accepted

\* C4: subword decoding with flashlight is accepted exactly when there is no LM
\* or the LM is packaged (nemolm), and rejected for a raw binary (lmplz) LM,
\* whatever the lexicon path.
C4_SubwordFlashlight ==
    (MatrixVerdict /\ decoding_type = "subword" /\ search_type = "flashlight") =>
        /\ kenlm_type \in {"zerolm", "nemolm"} => Accepted
        /\ kenlm_type = "lmplz" => Rejected

C4_Witness ==
    /\ MatrixVerdict /\ decoding_type = "subword" /\ search_type = "flashlight"
    /\ kenlm_type = "lmplz" /\ Truthy(lexicon_path) /\ Rejected

\* C5: char decoding with pyctcdecode is rejected without an LM and accepted
\* for both LM kinds (nemolm and lmplz).
C5_CharPyctcdecode ==
    (MatrixVerdict /\ decoding_type = "char" /\ search_type = "pyctcdecode") =>
        /\ kenlm_type = "zerolm" => Rejected
        /\ kenlm_type \in {"nemolm", "lmplz"} => Accepted

C5_Witness ==
    /\ MatrixVerdict /\ decoding_type = "char" /\ search_type = "pyctcdecode"
    /\ kenlm_type = "zerolm" /\ Rejected

\* C6: char decoding with flashlight is accepted for every LM kind, with and
\* without a lexicon path.
C6_CharFlashlight ==
    (MatrixVerdict /\ decoding_type = "char" /\ search_type = "flashlight") => Accepted

C6_Witness ==
    /\ MatrixVerdict /\ decoding_type = "char" /\ search_type = "flashlight"
    /\ kenlm_type = "lmplz" /\ ~Truthy(lexicon_path) /\ Accepted

HasBinary(path) ==
    \E i \in 1..Len(ArchiveMembers(path)) : ArchiveMembers(path)[i] = "kenlm_model.bin"
HasLexicon(path) ==
    \E i \in 1..Len(ArchiveMembers(path)) : ArchiveMembers(path)[i] = "flashlight.lexicon"

\* C7: an archive that holds a binary LM file gives kind nemolm with the binary
\* path inside an owned temporary directory, with the lexicon path resolved
\* there when the archive holds a lexicon and not when it holds none.
C7_ArchiveWithBinaryIsPackaged ==
    (constructed /\ IsArchive(init_args.kenlm_path) /\ HasBinary(init_args.kenlm_path)) =>
        /\ kenlm_type = "nemolm"
        /\ tmpdir # None
        /\ kenlm_path.dir = tmpdir[1]
        /\ HasLexicon(init_args.kenlm_path) <=> lexicon_path.dir = tmpdir[1]

ArgumentErrors == {"ValueError: beam_size", "ValueError: compute_timestamps",
                   "NotImplementedError: search_type"}

\* C8: when an LM path is given and extraction fails (no archive, or an archive
\* without binary LM member), the constructor does not fail for it: no call
\* raises anything but the errors of its other arguments, and the instance has
\* kind lmplz, the given path as binary path, no temporary directory and the
\* lexicon path of its configuration.
C8_ExtractionFailureFallsBack ==
    (/\ init_called
     /\ Truthy(init_args.kenlm_path)
     /\ ~(IsArchive(init_args.kenlm_path) /\ HasBinary(init_args.kenlm_path))) =>
        /\ ~constructed => last.error \in ArgumentErrors
        /\ (/\ init_args.beam_size >= 1
            /\ ~init_args.compute_timestamps
            /\ init_args.search_type \in {"pyctcdecode", "flashlight"}) =>
                /\ constructed
                /\ kenlm_type = "lmplz"
                /\ kenlm_path = init_args.kenlm_path
                /\ tmpdir = None
                /\ lexicon_path = init_args.lexicon_path

C8_Witness ==
    /\ constructed
    /\ init_args.kenlm_path = File("nobin.nemo")
    /\ kenlm_type = "lmplz" /\ kenlm_path = File("nobin.nemo") /\ tmpdir = None

\* C9: every temporary directory the LM loader created is owned by a
\* constructed decoder instance or has been deleted.
C9_NoUnownedTemporaryDirectory ==
    \A d \in Dirs : dirs[d] = "exists" => (constructed /\ tmpdir = Some(d))

\* C10: a decode call before set_vocabulary raises the not-ready error, one
\* after set_vocabulary and before set_decoding_type raises too; neither runs
\* a search, constructs a scorer or touches the temporary directory.
C10_ForwardBeforeSetupFails ==
    (last.op = "forward" /\ (vocab = None \/ decoding_type = "None")) =>
        /\ last.error = IF vocab = None THEN "RuntimeError: set_vocabulary"
                        ELSE "ValueError: set_decoding_type"
        /\ ~last.searched /\ ~last.built /\ ~last.cleaned
        /\ pyctcdecode_beam_scorer = None /\ flashlight_beam_scorer = None
        /\ tmpdir # None => dirs[tmpdir[1]] = "exists"

C10_Witness ==
    /\ last.op = "forward" /\ vocab # None /\ decoding_type = "None"
    /\ kenlm_type = "nemolm"
    /\ last.error = "ValueError: set_decoding_type"

----------------------------------------------------------------------------
(* Properties of C11..C20 *)

NoDuplicates(v) == \A i, j \in 1..Len(v) : v[i] = v[j] => i = j

\* C11: set_vocabulary(tokens) fails, and leaves vocab and both maps as they
\* were, whenever tokens holds the blank symbol or holds a token twice: a call
\* that completed has stored a vocabulary free of both.
C11_SetVocabularyRejectsBadTokens ==
    last.op = "set_vocabulary" /\ last.error = "none" =>
        NoDuplicates(vocab[1]) /\ BLANK \notin Tokens(vocab[1])

\* C12: after set_vocabulary(V) with V free of duplicates the two maps are
\* inverse to each other and the index of a token is its position in V.
C12_VocabularyMapsRoundTrip ==
    vocab # None /\ NoDuplicates(vocab[1]) =>
        /\ DOMAIN vocab_index_map[1] = Tokens(vocab[1])
        /\ DOMAIN index_vocab_map[1] = 0..(Len(vocab[1]) - 1)
        /\ \A t \in Tokens(vocab[1]) : index_vocab_map[1][vocab_index_map[1][t]] = t
        /\ \A i \in 0..(Len(vocab[1]) - 1) :
              vocab_index_map[1][index_vocab_map[1][i]] = i
        /\ \A i \in 1..Len(vocab[1]) : vocab_index_map[1][vocab[1][i]] = i - 1

C12_Witness ==
    last.op = "set_vocabulary" /\ vocab = Some(<<"a", "b">>)

NoScorer == pyctcdecode_beam_scorer = None /\ flashlight_beam_scorer = None

SupportedSearchTypes == {"beam", "pyctcdecode", "flashlight"}

C14_BadBeamSizeOrSearchTypeRejected ==
    init_called /\ (init_args.beam_size < 1
                    \/ init_args.search_type \notin SupportedSearchTypes) =>
        /\ ~constructed
        /\ last.op = "__init__"
        /\ last.error \in ArgumentErrors
        /\ init_args.beam_size < 1 => last.error = "ValueError: beam_size"
        /\ NoScorer /\ ~last.searched

C14_Witness ==
    /\ init_called /\ ~constructed
    /\ init_args.beam_size = 1 /\ ~init_args.compute_timestamps
    /\ init_args.search_type = "greedy"
    /\ last.error = "NotImplementedError: search_type"

\* C15: the constructor accepts exactly the search_type strings 'beam',
\* 'pyctcdecode' and 'flashlight' (its other arguments being valid), and
\* 'beam' selects the pyctcdecode search algorithm.
C15_AcceptedSearchTypes ==
    init_called /\ init_args.beam_size >= 1 /\ ~init_args.compute_timestamps =>
        /\ constructed <=> init_args.search_type \in SupportedSearchTypes
        /\ init_args.search_type = "beam" =>
              search_algorithm = "_pyctcdecode_beam_search"

\* an instance of Backend B constructed with the path of a file that does not exist
MissingLM ==
    /\ init_called
    /\ init_args.beam_size >= 1 /\ ~init_args.compute_timestamps
    /\ init_args.search_type = "flashlight"
    /\ init_args.kenlm_path = File("missing.bin")

\* C16: with kenlm_path naming a file that does not exist, Backend B and char
\* decoding, the constructor and set_decoding_type succeed, and every decode
\* call that passes the argument checks raises the resource-not-found error
\* with no scorer constructed and no search run; the scorer stays absent, so
\* a repeated call raises it again.
C16_MissingLMFileRaisesOnEveryDecode ==
    MissingLM =>
        /\ constructed /\ kenlm_path = File("missing.bin")
        /\ flashlight_beam_scorer = None
        /\ MatrixVerdict /\ decoding_type = "char" => Accepted
        /\ Decoded /\ decoding_type = "char"
              /\ last.error # "ValueError: decoder_output shape" =>
                  /\ last.error = "FileNotFoundError"
                  /\ ~last.built /\ ~last.searched /\ last.beams = None

C16_Witness ==
    /\ MissingLM /\ decoding_type = "char" /\ validation = "accepted"
    /\ last.op = "forward" /\ last.error = "FileNotFoundError"

\* the scorer of the backend the instance searches with
ActiveScorer ==
    IF search_algorithm = "_pyctcdecode_beam_search"
    THEN pyctcdecode_beam_scorer ELSE flashlight_beam_scorer

\* C17: a new instance has no scorer; a scorer appears only in a decode call
\* that reached the search and constructed it; a decode call constructs a
\* scorer only while the instance has none; a scorer once constructed is
\* kept as it is by every later call (at most one construction per instance
\* and backend).
C17_ScorerConstructedAtMostOnce ==
    [][/\ (~constructed /\ constructed') => NoScorer'
       /\ pyctcdecode_beam_scorer # None =>
             pyctcdecode_beam_scorer' = pyctcdecode_beam_scorer
       /\ flashlight_beam_scorer # None =>
             flashlight_beam_scorer' = flashlight_beam_scorer
       /\ (last' # last /\ last'.built) =>
             /\ last'.op = "forward"
             /\ ActiveScorer = None /\ ActiveScorer' # None
       /\ <<pyctcdecode_beam_scorer, flashlight_beam_scorer>>' #
             <<pyctcdecode_beam_scorer, flashlight_beam_scorer>> =>
             /\ last'.op = "forward" /\ last'.built
             /\ last'.beams # None]_vars

\* a decode call that searched with the scorer an earlier call constructed
C17_Witness ==
    /\ last.op = "forward" /\ last.error = "none"
    /\ last.searched /\ ~last.built
    /\ ActiveScorer # None

\* the score a backend gave a candidate: candidate[4] of pyctcdecode,
\* candidate['score'] of flashlight
CandidateScore(candidate) ==
    IF search_algorithm = "_pyctcdecode_beam_search"
    THEN candidate.lm_score ELSE candidate.score

\* h is the hypothesis of candidate `candidate` of sample i (decoder_lengths[i] = i)
IsHypothesisOf(h, candidate, i) ==
    /\ h.length = Some(i)
    /\ h.score = CandidateScore(candidate)
    /\ IF search_algorithm = "_pyctcdecode_beam_search"
       THEN h.text = Some(candidate.text)
       ELSE h.y_sequence = candidate.tokens

\* C18: a decode of B samples whose search and conversion succeeded, every
\* sample with at least one candidate, returns B entries, entry i made of
\* sample i: its first candidate with return_best_hypothesis, all of its
\* candidates in their order without; for every B >= 0.
C18_OneEntryPerSample ==
    /\ last.op = "forward" /\ last.beams # None
    /\ last.error \in {"none", "IndexError"}
    /\ \A i \in 1..Len(last.beams[1]) : Len(last.beams[1][i]) >= 1
    =>  /\ last.error = "none"
        /\ Len(last.result) = Len(last.beams[1])
        /\ \A i \in 1..Len(last.result) :
              IF return_best_hypothesis
              THEN IsHypothesisOf(last.result[i], last.beams[1][i][1], i)
              ELSE /\ Len(last.result[i]) = Len(last.beams[1][i])
                   /\ \A j \in 1..Len(last.result[i]) :
                         IsHypothesisOf(last.result[i][j], last.beams[1][i][j], i)

SortedDescending(h) == \A j, k \in 1..Len(h) : j < k => h[j].score >= h[k].score

\* a decode that returned N-best lists
NBestReturned ==
    last.op = "forward" /\ last.error = "none" /\ ~return_best_hypothesis

\* C19, as stated: in every decode output the N-best list of every sample
\* holds at least one hypothesis and is ordered by score descending, whatever
\* list the backend returned.
C19_NBestNonEmptyAndSorted ==
    NBestReturned =>
        \A i \in 1..Len(last.result) :
            Len(last.result[i]) >= 1 /\ SortedDescending(last.result[i])

\* C19, amended: the N-best list of every sample holds the backend's
\* candidates in the backend's order, so it holds at least one hypothesis and
\* is ordered by score descending when the backend's list is.
C19_NBestKeepsBackendOrder ==
    NBestReturned =>
        /\ Len(last.result) = Len(last.beams[1])
        /\ \A i \in 1..Len(last.result) :
              /\ Len(last.result[i]) = Len(last.beams[1][i])
              /\ \A j \in 1..Len(last.result[i]) :
                    last.result[i][j].score = CandidateScore(last.beams[1][i][j])
              /\ (/\ Len(last.beams[1][i]) >= 1
                  /\ \A j, k \in 1..Len(last.beams[1][i]) :
                        j < k => CandidateScore(last.beams[1][i][j])
                                    >= CandidateScore(last.beams[1][i][k]))
                  => Len(last.result[i]) >= 1 /\ SortedDescending(last.result[i])

C19_Witness ==
    /\ NBestReturned
    /\ \E i \in 1..Len(last.result) :
          /\ Len(last.result[i]) = 2
          /\ last.result[i][1].score > last.result[i][2].score

\* the hypotheses of a decode output
Hypotheses ==
    IF return_best_hypothesis
    THEN {last.result[i] : i \in 1..Len(last.result)}
    ELSE UNION {{last.result[i][j] : j \in 1..Len(last.result[i])} :
                   i \in 1..Len(last.result)}

\* the tokens index_vocab_map gives for the ids, concatenated
RECURSIVE ids_to_text(_)
ids_to_text(ids) ==
    IF ids = <<>> THEN <<>>
    ELSE Chars(index_vocab_map[1][Head(ids)]) \o ids_to_text(Tail(ids))

\* C20: in char decoding with Backend A, for every candidate text the backend
\* returns over the configured vocabulary, a hypothesis is produced (the
\* conversion of the text into token ids does not fail) and its token ids,
\* mapped through index_vocab_map and concatenated, give its text.
C20_CharRoundTrip ==
    /\ last.op = "forward" /\ last.beams # None
    /\ search_algorithm = "_pyctcdecode_beam_search"
    /\ decoding_type = "char"
    =>  /\ last.error # "KeyError"
        /\ last.error = "none" =>
              \A h \in Hypotheses : ids_to_text(h.y_sequence) = h.text[1]

----------------------------------------------------------------------------
(* Properties of C21..C30 *)

\* a set_decoding_type call that got as far as the validation
Validated(call) ==
    call.op = "set_decoding_type"
    /\ call.error # "ValueError: Unsupported decoding type"

\* some instance configuration of the given LM kind and lexicon presence
SomePathOf(ktype) == IF ktype = "zerolm" THEN NonePath ELSE File("any.lm")
SomeLexicon(present) == IF present THEN File("any.lexicon") ELSE NonePath

\* the verdict for (decoding type, backend, LM kind, lexicon presence) alone
VerdictOfTuple ==
    check_matrix(decoding_type, search_type, SomePathOf(kenlm_type), kenlm_type,
                 SomeLexicon(Truthy(lexicon_path)))

\* the verdict for that tuple and the kind of tokenizer the instance holds
VerdictOfTupleAndTokenizer ==
    validate(decoding_type,
             IF tokenizer = "AggregateTokenizer" THEN "AggregateTokenizer" ELSE "None",
             search_type, SomePathOf(kenlm_type), kenlm_type,
             SomeLexicon(Truthy(lexicon_path)))

\* two set_decoding_type calls in a row that validated the same decoding type
SameTypeTwice ==
    Validated(last) /\ Validated(last') /\ decoding_type' = decoding_type

\* C21, as stated: two set_decoding_type calls in a row with the same decoding
\* type end the same way (both accepted or both rejected), and the outcome of
\* a call is the one that belongs to the instance's (backend, LM kind,
\* lexicon presence) and the decoding type, whatever else the instance holds.
C21_ValidationDependsOnTupleOnly ==
    [][/\ SameTypeTwice => ((last'.error = "none") <=> (last.error = "none"))
       /\ Validated(last') =>
             ((last'.error = "none") <=> (VerdictOfTuple' = "return"))]_vars

\* C21, amended: as above, the outcome belonging to (backend, LM kind, lexicon
\* presence), the decoding type and whether the tokenizer is an
\* AggregateTokenizer.
C21_ValidationDependsOnTupleAndTokenizer ==
    [][/\ SameTypeTwice => ((last'.error = "none") <=> (last.error = "none"))
       /\ Validated(last') =>
             /\ (last'.error = "none") <=> (VerdictOfTupleAndTokenizer' = "return")
             /\ (validation' = "accepted") <=> (last'.error = "none")]_vars

C21_Witness ==
    /\ Validated(last) /\ validation = "rejected: matrix"
    /\ decoding_type = "subword" /\ search_type = "flashlight"
    /\ kenlm_type = "lmplz" /\ Truthy(lexicon_path)
    /\ init_args.kenlm_path = File("lm.bin")

\* a call that ended because the LM file it needed was no longer there
FailedForMissingLM(call) ==
    call.pc = "done" /\ call.error \in {"FileNotFoundError", "OSError: kenlm model"}

\* C22: when the scorer was constructed by a decode call that completed
\* before the concurrent calls began, then in every interleaving no
\* concurrent call constructs a scorer and none fails for the LM file of the
\* released temporary directory.
C22_WarmScorerIsSafeUnderConcurrency ==
    threads # NoThreads /\ threads.warm =>
        \A t \in Threads :
            /\ threads.calls[t].pc # "construct"
            /\ ~threads.calls[t].built
            /\ ~FailedForMissingLM(threads.calls[t])

\* every concurrent call has searched with the scorer of the earlier call
\* while the temporary directory was already released
C22_Witness ==
    /\ threads # NoThreads /\ threads.warm
    /\ kenlm_type = "nemolm" /\ tmpdir # None /\ dirs[tmpdir[1]] = "deleted"
    /\ \A t \in Threads :
          threads.calls[t].pc = "done" /\ threads.calls[t].error = "none"

\* without the earlier call two threads both construct the scorer, or one
\* finds the LM file released by the other
C22_ColdStartRaces ==
    /\ threads # NoThreads /\ ~threads.warm
    /\ \/ \A t \in Threads : threads.calls[t].built
       \/ \E t \in Threads : FailedForMissingLM(threads.calls[t])

\* C23: for a non-empty sequence of cuts and num_buckets > 1 the list that
\* estimate_duration_buckets returns has exactly num_buckets - 1 elements.
C23_ReturnsNumBucketsMinusOneBins ==
    buckets.pc = "done" => Len(buckets.bins) = buckets.num_buckets - 1

\* the tensors of the two calls agree on the first out_len[i] time steps of
\* sample i
AgreeWithinLength(i) ==
    \A t \in 1..slices.out_len[i] : slices.x[i][t] = slices.y[i][t]

\* C24: two pyctcdecode decode calls whose tensors differ only at time steps
\* >= lengths[i] of sample i, or in the data of other samples, hand the
\* backend the same matrix for sample i and give the same N-best list for it.
C24_SearchSeesOnlyFirstLengthSteps ==
    slices.pc = "done" =>
        \A i \in SliceSamples :
            AgreeWithinLength(i) =>
                /\ slices.first.handed[i] = slices.second.handed[i]
                /\ Len(slices.first.handed[i]) = slices.out_len[i]
                /\ slices.first.beams_batch[i] = slices.second.beams_batch[i]

\* a pair of calls that differ in the padding of sample 1 and in the data of
\* sample 2, sample 1 having one valid time step
C24_Witness ==
    /\ slices.pc = "done"
    /\ slices.out_len[1] = 1
    /\ AgreeWithinLength(1)
    /\ \E t \in 2..MaxTime : slices.x[1][t] # slices.y[1][t]
    /\ slices.out_len[2] > 0
    /\ ~AgreeWithinLength(2)
    /\ slices.first.handed[1] = slices.second.handed[1]

\* the three language model kinds of a constructed instance
LMKindsConsistent ==
    /\ kenlm_type \in {"zerolm", "nemolm", "lmplz"}
    /\ kenlm_type = "zerolm" <=> kenlm_path = NonePath
    /\ kenlm_type = "zerolm" <=> init_args.kenlm_path \in {NonePath, File("")}
    /\ tmpdir # None <=> kenlm_type = "nemolm"

\* C25: in every state of a constructed instance kenlm_type is zerolm, nemolm
\* or lmplz, it is zerolm exactly when kenlm_path is None (the empty string
\* given as path counts as no LM), tmpdir is not None exactly when it is
\* nemolm; and no operation changes kenlm_type, kenlm_path or search_type.
C25_LMKindFixedAtConstruction ==
    [][/\ constructed' => LMKindsConsistent'
       /\ constructed => /\ kenlm_type' = kenlm_type
                         /\ kenlm_path' = kenlm_path
                         /\ search_type' = search_type]_vars

\* all three kinds and the empty-string path are constructed; an operation
\* has run on the instance
C25_Witness ==
    /\ constructed
    /\ last.op \in {"set_vocabulary", "set_tokenizer", "set_decoding_type", "forward"}
    /\ kenlm_type = "zerolm"
    /\ init_args.kenlm_path = File("")

\* the exceptions of the matrix blocks that name an unsupported combination
MatrixRejections ==
    {"NotImplementedError: works only with lexicon_path",
     "NotImplementedError: not implemented without kenlm_path",
     "NotImplementedError: not implemented with kenlm_type"}

\* C26: set_decoding_type on a constructed instance ends in a normal return,
\* the ValueError for an unsupported decoding type, the AggregateTokenizer
\* rejection or one of the matrix rejections; the trailing 'Wrong parameter
\* combination' error and the 'Unknown kenlm_type' errors are never raised.
C26_SetDecodingTypeOutcomes ==
    last.op = "set_decoding_type" =>
        /\ last.error \in {"none", "ValueError: Unsupported decoding type",
                           "NotImplementedError: AggregateTokenizer"}
                              \cup MatrixRejections
        /\ last.error # "NotImplementedError: Wrong parameter combination"
        /\ last.error # "ValueError: Unknown kenlm_type"

\* a call that passed the tokenizer check and was decided by the matrix, on an
\* instance with a raw binary LM
C26_Witness ==
    /\ last.op = "set_decoding_type"
    /\ last.error \in MatrixRejections
    /\ kenlm_type = "lmplz"
    /\ tokenizer # "AggregateTokenizer"

\* C27: no backend search runs while the tokenizer of the instance is an
\* AggregateTokenizer, in whatever order set_tokenizer, set_decoding_type and
\* forward are called.
C27_NoSearchWithAggregateTokenizer ==
    (last.op = "forward" /\ last.searched) => tokenizer # "AggregateTokenizer"

\* the vocabulary a scorer built now would be given: labels=self.vocab for
\* pyctcdecode (line 359), the vocabulary of lines 447-454 for flashlight
CurrentScorerVocabulary ==
    IF search_algorithm = "flashlight_beam_search" THEN flashlight_vocabulary
    ELSE vocab[1]

\* C28: at every decode the scorer used for the search was built from the
\* vocabulary and the decoding type that are current at that decode: the
\* vocabulary the cached scorer holds equals the one derived from the current
\* vocab and decoding type.
C28_ScorerBuiltFromCurrentVocabulary ==
    (last.op = "forward" /\ last.error = "none" /\ ActiveScorer # None) =>
        ActiveScorer[1].vocabulary = CurrentScorerVocabulary

\* the characters with the code points 100, 101, 102
CodePointsFrom100 == <<"d", "e", "f">>

\* C29: when flashlight builds its scorer for subword decoding with a packaged
\* LM, the vocabulary handed to the scorer has the length of the decoder
\* vocabulary, its entry i (from 0) is the character with code point i + 100,
\* token_offset being DEFAULT_TOKEN_OFFSET whenever decoding_type is subword,
\* and no two entries are equal; in every other configuration the scorer is
\* handed the decoder vocabulary unchanged.
C29_FlashlightVocabularyRemapping ==
    /\ decoding_type = "subword" => token_offset = DEFAULT_TOKEN_OFFSET
    /\ (last.op = "forward" /\ last.built
            /\ search_algorithm = "flashlight_beam_search") =>
          LET handed == flashlight_beam_scorer[1].vocabulary
          IN  IF decoding_type = "subword" /\ kenlm_type = "nemolm"
              THEN /\ Len(handed) = Len(vocab[1])
                   /\ \A i \in 1..Len(handed) : handed[i] = CodePointsFrom100[i]
                   /\ \A i, j \in 1..Len(handed) : handed[i] = handed[j] => i = j
              ELSE handed = vocab[1]

\* a flashlight scorer built for subword decoding with a packaged LM from a
\* vocabulary of two tokens
C29_Witness ==
    /\ last.op = "forward"
    /\ last.built
    /\ search_algorithm = "flashlight_beam_search"
    /\ decoding_type = "subword"
    /\ kenlm_type = "nemolm"
    /\ Len(vocab[1]) = 2
    /\ flashlight_beam_scorer[1].vocabulary = <<"d", "e">>

\* the temporary directory of the instance has been removed
TmpdirReleased == tmpdir # None /\ dirs[tmpdir[1]] = "deleted"

\* C30: in sequential use of an instance with a packaged LM, in every state
\* in which the temporary directory has been released the scorer of the
\* instance's backend has been constructed, and no decode call fails for an
\* LM file of the released directory.
C30_ReleasedOnlyAfterScorerBuilt ==
    (constructed /\ kenlm_type = "nemolm") =>
        /\ TmpdirReleased => ActiveScorer # None
        /\ last.op = "forward" =>
              last.error \notin {"FileNotFoundError", "OSError: kenlm model"}
        /\ (last.op = "forward" /\ last.built /\ ~last.cleaned) => ~TmpdirReleased

\* a decode of an instance with a packaged LM that searched with the cached
\* scorer while the directory was gone
C30_Witness ==
    /\ constructed
    /\ kenlm_type = "nemolm"
    /\ TmpdirReleased
    /\ last.op = "forward"
    /\ last.searched
    /\ ~last.built
    /\ ActiveScorer[1].lm_path.dir = tmpdir[1]

====
